---- MODULE Spec2Model ----
(***************************************************************************)
(* Model of the mortgage amortization engine of the property page          *)
(* (calculateRemainingBalance and parseLocalDate in the Properties         *)
(* component) together with the card rendering that invokes it.            *)
(*                                                                         *)
(* JavaScript Numbers are modelled as exact decimals n / Q^k held in       *)
(* multi-limb integers, so that no step of the simulation is rounded or    *)
(* truncated by the model; a second specification, SpecDouble, runs the    *)
(* same engine on IEEE-754 doubles, every operation rounded to nearest.    *)
(* JavaScript Dates are modelled as local calendar dates                   *)
(* [y, m, d] with the 0-based month of getMonth(), built by MkDate with    *)
(* the overflow rules of new Date(y, m, d).                                *)
(***************************************************************************)
EXTENDS Integers, Sequences, FiniteSets, TLC

(***************************************************************************)
(* Bounds of the model.                                                    *)
(***************************************************************************)
\* number of days the wall clock may advance after ClockStart
MaxDays == 93
\* number of days that may pass between two renderings of the card
MaxGap == 2

(***************************************************************************)
(* Unsigned multi-limb integers: little-endian sequences of limbs in       *)
(* 0..Base-1 without a most significant zero limb (zero is << >>).         *)
(***************************************************************************)
Base == 10000

RECURSIVE MagNorm(_)
MagNorm(a) ==
    IF a = << >> THEN << >>
    ELSE IF a[Len(a)] = 0 THEN MagNorm(SubSeq(a, 1, Len(a) - 1))
    ELSE a

RECURSIVE MagFromNat(_)
MagFromNat(x) ==
    IF x = 0 THEN << >> ELSE <<x % Base>> \o MagFromNat(x \div Base)

RECURSIVE MagAddC(_, _, _)
MagAddC(a, b, c) ==
    IF a = << >> /\ b = << >> THEN (IF c = 0 THEN << >> ELSE <<c>>)
    ELSE LET x == IF a = << >> THEN 0 ELSE Head(a)
             y == IF b = << >> THEN 0 ELSE Head(b)
             s == x + y + c
         IN  <<s % Base>> \o MagAddC(IF a = << >> THEN a ELSE Tail(a),
                                     IF b = << >> THEN b ELSE Tail(b),
                                     s \div Base)

MagAdd(a, b) == MagAddC(a, b, 0)

\* a - b - c for a >= b + c
RECURSIVE MagSubB(_, _, _)
MagSubB(a, b, c) ==
    IF a = << >> THEN << >>
    ELSE LET y == IF b = << >> THEN 0 ELSE Head(b)
             s == Head(a) - y - c
         IN  <<IF s < 0 THEN s + Base ELSE s>>
             \o MagSubB(Tail(a), IF b = << >> THEN b ELSE Tail(b),
                        IF s < 0 THEN 1 ELSE 0)

MagSub(a, b) == MagNorm(MagSubB(a, b, 0))

\* -1, 0, 1 as a < b, a = b, a > b
RECURSIVE MagCmpFrom(_, _, _)
MagCmpFrom(a, b, i) ==
    IF i = 0 THEN 0
    ELSE IF a[i] < b[i] THEN -1
    ELSE IF a[i] > b[i] THEN 1
    ELSE MagCmpFrom(a, b, i - 1)

MagCmp(a, b) ==
    IF Len(a) < Len(b) THEN -1
    ELSE IF Len(a) > Len(b) THEN 1
    ELSE MagCmpFrom(a, b, Len(a))

\* a * c for a small multiplier 0 <= c < 200000
RECURSIVE MagMulSmallC(_, _, _)
MagMulSmallC(a, c, carry) ==
    IF a = << >> THEN MagFromNat(carry)
    ELSE LET s == Head(a) * c + carry
         IN  <<s % Base>> \o MagMulSmallC(Tail(a), c, s \div Base)

MagMulSmall(a, c) == MagNorm(MagMulSmallC(a, c, 0))

RECURSIVE MagMul(_, _)
MagMul(a, b) ==
    IF a = << >> \/ b = << >> THEN << >>
    ELSE LET rest == MagMul(a, Tail(b))
         IN  MagAdd(MagMulSmall(a, Head(b)),
                    IF rest = << >> THEN rest ELSE <<0>> \o rest)

\* <<quotient, remainder>> of a by a small divisor 0 < c < 200000
RECURSIVE MagDivSmall(_, _)
MagDivSmall(a, c) ==
    IF a = << >> THEN << << >>, 0 >>
    ELSE LET hi  == MagDivSmall(Tail(a), c)
             cur == hi[2] * Base + Head(a)
         IN  << MagNorm(<<cur \div c>> \o hi[1]), cur % c >>

(***************************************************************************)
(* JavaScript Numbers as exact signed decimals [neg, mag, k] with value    *)
(* (-1)^neg * mag / Q^k.  Q is divisible by 10, 12 and 100, so the         *)
(* divisions of the source (/ 100, / 12) and rates given in tenths of a    *)
(* percent are exact.  Values are kept normalised (smallest k; zero is     *)
(* non-negative), so equal numbers are equal values.                       *)
(***************************************************************************)
Q == 12000

RECURSIVE NumNorm(_)
NumNorm(x) ==
    IF x.mag = << >> THEN [neg |-> FALSE, mag |-> << >>, k |-> 0]
    ELSE IF x.k = 0 THEN x
    ELSE LET qr == MagDivSmall(x.mag, Q)
         IN  IF qr[2] = 0 THEN NumNorm([x EXCEPT !.mag = qr[1], !.k = x.k - 1])
             ELSE x

NumFromInt(i) ==
    [neg |-> i < 0, mag |-> MagFromNat(IF i < 0 THEN -i ELSE i), k |-> 0]

NumZero == NumFromInt(0)

\* the magnitude of x expressed over Q^k, for k >= x.k
RECURSIVE MagScaled(_, _)
MagScaled(x, k) ==
    IF x.k >= k THEN x.mag
    ELSE MagScaled([x EXCEPT !.mag = MagMulSmall(x.mag, Q), !.k = x.k + 1], k)

NumNeg(x) == IF x.mag = << >> THEN x ELSE [x EXCEPT !.neg = ~x.neg]

NumAdd(x, y) ==
    LET k == IF x.k > y.k THEN x.k ELSE y.k
        a == MagScaled(x, k)
        b == MagScaled(y, k)
        c == MagCmp(a, b)
    IN  IF x.neg = y.neg THEN NumNorm([neg |-> x.neg, mag |-> MagAdd(a, b), k |-> k])
        ELSE IF c >= 0 THEN NumNorm([neg |-> x.neg, mag |-> MagSub(a, b), k |-> k])
        ELSE NumNorm([neg |-> y.neg, mag |-> MagSub(b, a), k |-> k])

NumSub(x, y) == NumAdd(x, NumNeg(y))

NumMul(x, y) ==
    NumNorm([neg |-> x.neg # y.neg, mag |-> MagMul(x.mag, y.mag), k |-> x.k + y.k])

\* x / c for a divisor c of Q
NumDiv(x, c) ==
    NumNorm([neg |-> x.neg, mag |-> MagMulSmall(x.mag, Q \div c), k |-> x.k + 1])

\* x <= y
NumLeq(x, y) ==
    LET d == NumSub(x, y) IN d.neg \/ d.mag = << >>

NumLt(x, y) == NumSub(x, y).neg

\* a number typed into the form with one fractional digit, given in tenths
NumFromTenths(t) == NumDiv(NumFromInt(t), 10)

(***************************************************************************)
(* IEEE-754 binary64.  A binary number is [neg, m, e] with the value       *)
(* (-1)^neg * m * 2^e, kept normalised (m odd; zero is non-negative with   *)
(* e = 0).  Sums, differences and products of binary numbers are exact;    *)
(* every arithmetic operator of the source yields the double nearest to    *)
(* the exact result, ties to the even mantissa.  The amounts of the engine *)
(* are far from the overflow and subnormal ranges, which are not modelled. *)
(***************************************************************************)
\* 2^53 and 2^66 as magnitudes
Two53 == <<992, 5474, 1992, 9007>>
Two66 == <<6464, 3820, 2948, 6976, 7378>>

\* a * c^n
RECURSIVE MagMulPow(_, _, _)
MagMulPow(a, c, n) ==
    IF n = 0 \/ a = << >> THEN a ELSE MagMulPow(MagMulSmall(a, c), c, n - 1)

\* a * 2^bits
MagShiftLeft(a, bits) == MagMulPow(MagMulPow(a, 8192, bits \div 13), 2, bits % 13)

BinZero == [neg |-> FALSE, m |-> << >>, e |-> 0]

\* Base is divisible by 16, so the lowest limb tells the divisibility by 2 and 16
RECURSIVE BinNorm(_)
BinNorm(x) ==
    IF x.m = << >> THEN BinZero
    ELSE IF Head(x.m) % 16 = 0
         THEN BinNorm([x EXCEPT !.m = MagDivSmall(x.m, 16)[1], !.e = x.e + 4])
    ELSE IF Head(x.m) % 2 = 0
         THEN BinNorm([x EXCEPT !.m = MagDivSmall(x.m, 2)[1], !.e = x.e + 1])
    ELSE x

BinFromInt(i) ==
    BinNorm([neg |-> i < 0, m |-> MagFromNat(IF i < 0 THEN -i ELSE i), e |-> 0])

BinNeg(x) == IF x.m = << >> THEN x ELSE [x EXCEPT !.neg = ~x.neg]

BinAdd(x, y) ==
    LET e == IF x.e < y.e THEN x.e ELSE y.e
        a == MagShiftLeft(x.m, x.e - e)
        b == MagShiftLeft(y.m, y.e - e)
        c == MagCmp(a, b)
    IN  IF x.neg = y.neg THEN BinNorm([neg |-> x.neg, m |-> MagAdd(a, b), e |-> e])
        ELSE IF c >= 0 THEN BinNorm([neg |-> x.neg, m |-> MagSub(a, b), e |-> e])
        ELSE BinNorm([neg |-> y.neg, m |-> MagSub(b, a), e |-> e])

BinSub(x, y) == BinAdd(x, BinNeg(y))

BinMul(x, y) ==
    BinNorm([neg |-> x.neg # y.neg, m |-> MagMul(x.m, y.m), e |-> x.e + y.e])

\* x <= y
BinLeq(x, y) ==
    LET d == BinSub(x, y) IN d.neg \/ d.m = << >>

\* shifts n right until it has at most 53 bits, 13 bits at a time while it has
\* more than 66: guard is the last bit shifted out, sticky tells whether
\* anything below it was non-zero, sh counts the bits shifted
RECURSIVE ShiftToMantissa(_, _, _, _)
ShiftToMantissa(n, guard, sticky, sh) ==
    IF MagCmp(n, Two53) < 0 THEN [n |-> n, guard |-> guard, sticky |-> sticky, sh |-> sh]
    ELSE IF MagCmp(n, Two66) >= 0
         THEN LET qr == MagDivSmall(n, 8192)
              IN  ShiftToMantissa(qr[1], qr[2] >= 4096,
                                  sticky \/ guard \/ qr[2] % 4096 # 0, sh + 13)
         ELSE LET qr == MagDivSmall(n, 2)
              IN  ShiftToMantissa(qr[1], qr[2] = 1, sticky \/ guard, sh + 1)

\* the 53-bit mantissa nearest to the shifted one, ties to even
Nearest(s) ==
    IF s.guard /\ (s.sticky \/ Head(s.n) % 2 = 1) THEN MagAdd(s.n, <<1>>) ELSE s.n

\* the double nearest to the binary number x
RoundToDouble(x) ==
    LET s == ShiftToMantissa(x.m, FALSE, FALSE, 0)
    IN  BinNorm([neg |-> x.neg, m |-> Nearest(s), e |-> x.e + s.sh])

\* the double nearest to x / c for a double x and an integer 0 < c < 200000:
\* the quotient of x.m * 2^64 has more than 53 bits, the remainder is sticky
DivToDouble(x, c) ==
    LET qr == MagDivSmall(MagMulPow(x.m, 65536, 4), c)
        s == ShiftToMantissa(qr[1], FALSE, qr[2] # 0, 0)
    IN  BinNorm([neg |-> x.neg, m |-> Nearest(s), e |-> x.e - 64 + s.sh])

\* Number() of a decimal with one fractional digit, given in tenths
DoubleFromTenths(t) == DivToDouble(BinFromInt(t), 10)

\* floor of a non-negative magnitude over Q^k
RECURSIVE MagFloor(_, _)
MagFloor(mag, k) ==
    IF k = 0 THEN mag ELSE MagFloor(MagDivSmall(mag, Q)[1], k - 1)

RECURSIVE MagToNat(_)
MagToNat(a) == IF a = << >> THEN 0 ELSE Head(a) + Base * MagToNat(Tail(a))

\* a non-negative number in cents, rounded half up to two fraction digits as
\* toLocaleString(undefined, {minimumFractionDigits: 2, maximumFractionDigits: 2})
\* displays it
ToCents(x) ==
    LET twice == NumAdd(NumMul(x, NumFromInt(200)), NumFromInt(1))
    IN  MagToNat(MagDivSmall(MagFloor(twice.mag, twice.k), 2)[1])

(***************************************************************************)
(* JavaScript Dates.  The numeric arguments and getters of Date are        *)
(* [nan, v]: an integer v, or NaN.  A Date is [nan, y, m, d, h] with the   *)
(* 0-based month m of getMonth() and the hour h of the local day; nan      *)
(* marks the Invalid Date.                                                 *)
(***************************************************************************)
JNum(v) == [nan |-> FALSE, v |-> v]
JNaN == [nan |-> TRUE, v |-> 0]

InvalidDate == [nan |-> TRUE, y |-> 0, m |-> 0, d |-> 0, h |-> 0]

IsLeapYear(y) == (y % 4 = 0 /\ y % 100 # 0) \/ y % 400 = 0

DaysInMonth(y, m) ==
    IF m = 1 THEN (IF IsLeapYear(y) THEN 29 ELSE 28)
    ELSE IF m \in {3, 5, 8, 10} THEN 30
    ELSE 31

\* new Date(y, m, d) on integers: a month outside 0..11 carries into the
\* year, a day outside the month carries into the neighbouring months
RECURSIVE MkDate(_, _, _)
MkDate(y, m, d) ==
    IF m < 0 \/ m > 11 THEN MkDate(y + (m \div 12), m % 12, d)
    ELSE IF d < 1 THEN
        LET py == IF m = 0 THEN y - 1 ELSE y
            pm == IF m = 0 THEN 11 ELSE m - 1
        IN  MkDate(py, pm, d + DaysInMonth(py, pm))
    ELSE IF d > DaysInMonth(y, m) THEN MkDate(y, m + 1, d - DaysInMonth(y, m))
    ELSE [nan |-> FALSE, y |-> y, m |-> m, d |-> d, h |-> 0]

NewDate(y, m, d) ==
    IF y.nan \/ m.nan \/ d.nan THEN InvalidDate ELSE MkDate(y.v, m.v, d.v)

getFullYear(date) == IF date.nan THEN JNaN ELSE JNum(date.y)
getMonth(date) == IF date.nan THEN JNaN ELSE JNum(date.m)

JPlus(x, i) == IF x.nan THEN JNaN ELSE JNum(x.v + i)

\* a <= b on Dates (comparison of the time values; false when either is NaN)
DateLeq(a, b) ==
    /\ ~a.nan
    /\ ~b.nan
    /\ \/ a.y < b.y
       \/ a.y = b.y /\ a.m < b.m
       \/ a.y = b.y /\ a.m = b.m /\ a.d < b.d
       \/ a.y = b.y /\ a.m = b.m /\ a.d = b.d /\ a.h <= b.h

\* mutation: setUTCHours in a time zone one hour ahead of UTC: the local hour
\* 1 of the UTC day, which for the local hour 0 is the day before
setHours_UTC(date, hours) ==
    IF date.nan THEN InvalidDate
    ELSE IF date.h < 1 THEN [MkDate(date.y, date.m, date.d - 1) EXCEPT !.h = hours + 1]
    ELSE [date EXCEPT !.h = hours + 1]

\* date.setHours(hours, 0, 0, 0) for an hour of the day
setHours(date, hours) == IF date.nan THEN InvalidDate ELSE [date EXCEPT !.h = hours]

\* mutation: the cursor is not moved
setMonth_Stuck(date, month) == date

\* date.setMonth(month): same year and day-of-month, with the carries of MkDate
setMonth(date, month) ==
    IF date.nan \/ month.nan THEN InvalidDate
    ELSE [MkDate(date.y, month.v, date.d) EXCEPT !.h = date.h]

(***************************************************************************)
(* Strings are sequences of one-character strings.                         *)
(***************************************************************************)
Digits == <<"0", "1", "2", "3", "4", "5", "6", "7", "8", "9">>

IsDigit(c) == \E i \in 1..10 : Digits[i] = c
DigitVal(c) == (CHOOSE i \in 1..10 : Digits[i] = c) - 1

\* str.split(sep): the pieces of str between the separators
RECURSIVE Split(_, _)
Split(str, sep) ==
    IF \A i \in 1..Len(str) : str[i] # sep THEN <<str>>
    ELSE LET i == CHOOSE j \in 1..Len(str) :
                      str[j] = sep /\ \A h \in 1..(j - 1) : str[h] # sep
         IN  <<SubSeq(str, 1, i - 1)>> \o Split(SubSeq(str, i + 1, Len(str)), sep)

\* Number(str) for the strings a date input can hold: the empty string is 0,
\* a string of digits its decimal value, anything else NaN
RECURSIVE DecimalValue(_)
DecimalValue(str) ==
    IF str = << >> THEN 0
    ELSE DecimalValue(SubSeq(str, 1, Len(str) - 1)) * 10 + DigitVal(str[Len(str)])

Number(str) ==
    IF \A i \in 1..Len(str) : IsDigit(str[i]) THEN JNum(DecimalValue(str)) ELSE JNaN

\* const [y, m, d] = dateStr.split('-').map(Number); new Date(y, m - 1, d)
\* (a missing piece is undefined, which Date takes as NaN)
parseLocalDate(dateStr) ==
    LET parts == Split(dateStr, "-")
        Part(i) == IF i <= Len(parts) THEN Number(parts[i]) ELSE JNaN
    IN  NewDate(Part(1), JPlus(Part(2), -1), Part(3))

\* the value of an <input type="date"> holding the day d of month m (1..12) of
\* year y: the string "YYYY-MM-DD"
RECURSIVE Padded(_, _)
Padded(n, width) ==
    IF width = 0 THEN << >> ELSE Padded(n \div 10, width - 1) \o <<Digits[(n % 10) + 1]>>

DateInputValue(y, m, d) == Padded(y, 4) \o <<"-">> \o Padded(m, 2) \o <<"-">> \o Padded(d, 2)

(***************************************************************************)
(* The mortgages the model draws from (MortgageConfig records).  Rates are *)
(* given in tenths of a percent.                                           *)
(***************************************************************************)
MortgageOf(loan, interest10, principal10, startStr, timing) ==
    [ loanAmount    |-> NumFromInt(loan),
      startDate     |-> startStr,
      interestRate  |-> NumFromTenths(interest10),
      principalRate |-> NumFromTenths(principal10),
      bankName      |-> "Sparkasse",
      paymentTiming |-> timing ]

PaymentTimings == {"START_OF_MONTH", "END_OF_MONTH"}

\* <<loanAmount, interestRate, principalRate>> with the rates in tenths of a percent
ValidAmounts ==
    { <<250000, 35, 20>>,     \* 3.5 % interest, 2.0 % principal
      <<1000, 0, 12000>>,     \* repaid by the first payment
      <<1000, 120, 0>>,       \* interest only
      <<90000, 50, 4000>> }   \* repaid within three payments

InvalidAmounts ==
    { <<0, 35, 20>>, <<-1000, 35, 20>>, <<250000, -10, 20>>, <<250000, 35, -10>> }

StartDates ==
    { DateInputValue(2023, 12, 15), DateInputValue(2024, 1, 1),
      DateInputValue(2024, 1, 31), DateInputValue(2024, 2, 10) }

MalformedDates == { << >>, <<"2", "0", "2", "4", "-", "0", "1">> }

ValidMortgages ==
    { MortgageOf(a[1], a[2], a[3], sd, t) :
        a \in ValidAmounts, sd \in StartDates, t \in PaymentTimings }

InvalidMortgages ==
    { MortgageOf(a[1], a[2], a[3], DateInputValue(2024, 1, 1), t) :
        a \in InvalidAmounts, t \in PaymentTimings }
    \cup { MortgageOf(250000, 35, 20, sd, t) : sd \in MalformedDates, t \in PaymentTimings }

Mortgages == ValidMortgages \cup InvalidMortgages

\* the hours of the day at which a card is rendered
RenderHours == {0, 13, 23}

\* the first day of the wall clock
ClockStart == MkDate(2023, 11, 30)

\* the number of the local calendar day of a Date, counted in days
RECURSIVE DaysBeforeMonth(_, _)
DaysBeforeMonth(y, m) ==
    IF m = 0 THEN 0 ELSE DaysBeforeMonth(y, m - 1) + DaysInMonth(y, m - 1)

DayNumber(date) ==
    365 * date.y + ((date.y - 1) \div 4) - ((date.y - 1) \div 100)
    + ((date.y - 1) \div 400) + DaysBeforeMonth(date.y, date.m) + date.d

(***************************************************************************)
(* The data-model invariants of a mortgage.                                *)
(***************************************************************************)
IsCalendarDate(dateStr) ==
    LET parts == Split(dateStr, "-")
    IN  /\ Len(parts) = 3
        /\ \A i \in 1..3 : ~Number(parts[i]).nan
        /\ Number(parts[2]).v \in 1..12
        /\ Number(parts[3]).v \in 1..DaysInMonth(Number(parts[1]).v, Number(parts[2]).v - 1)

ValidTerms(m) ==
    /\ NumLt(NumZero, m.loanAmount)
    /\ NumLeq(NumZero, m.interestRate)
    /\ NumLeq(NumZero, m.principalRate)
    /\ IsCalendarDate(m.startDate)

(***************************************************************************)
(* calculateRemainingBalance, one action per loop iteration.               *)
(***************************************************************************)
VARIABLES
    mortgage,       \* the MortgageConfig of the property shown
    clock,          \* the local calendar day of the wall clock
    pc,             \* "idle", "loop" (at the loop test), "returned"
    now,            \* const now
    balance,        \* let balance
    currentDate,    \* let currentDate
    stopDateMonth,  \* const stopDateMonth
    ret,            \* the value returned by the call
    steps,          \* number of amortization steps the call has applied
    prev,           \* now, ret and steps of the call before this one
    iters           \* number of times the call has entered the loop body

(***************************************************************************)
(* The property form and the card of the page (handleSubmit, the render).  *)
(***************************************************************************)
VARIABLES
    financed,       \* p.mortgage is defined
    form,           \* the FormData of the last submit
    shown,          \* what the last render showed: p.mortgage and its new Date()
    before          \* the same of the render before it, and its result

(***************************************************************************)
(* The session store of the authentication middleware.                     *)
(***************************************************************************)
VARIABLES
    activeSessions, \* const activeSessions: token -> expiry
    time,           \* Date.now(), in ms since the server started
    issued,         \* the tokens login has created, with their time of creation
    loggedOut,      \* the tokens logout has been called with
    request,        \* the last request served and its outcome
    env             \* which of APP_PASSWORD_HASH and APP_PASSWORD is configured

(***************************************************************************)
(* POST /api/documents/analyze and retryWithBackoff.                       *)
(***************************************************************************)
VARIABLES
    handler,        \* the version of the route: "server.js" or "part_002"
    stage,          \* where the handler of the request is
    attempt,        \* let attempt of retryWithBackoff
    tries,          \* the outcomes of the calls of fn(), in order
    aiResponse,     \* const response: what retryWithBackoff returned, "" if nothing
    error,          \* the error thrown inside the try block
    tempFile,       \* req.file.path exists
    status          \* the status of the response sent, 0 if none

(***************************************************************************)
(* The api client in the browser (services/api.ts).                        *)
(***************************************************************************)
VARIABLES
    localStorage,   \* the items authToken and authExpiry
    location,       \* window.location.href
    received        \* the operation last called and the status it received

(***************************************************************************)
(* performBackup.                                                          *)
(***************************************************************************)
VARIABLES
    runs,           \* the runs of performBackup: where each is, and its temp path
    files,          \* the temp backup files that exist
    today           \* the date new Date() gives

engineVars == <<mortgage, clock, pc, now, balance, currentDate, stopDateMonth, ret, steps,
                prev, iters>>
pageVars == <<financed, form, shown, before>>
authVars == <<activeSessions, time, issued, loggedOut, request, env>>

docVars == <<handler, stage, attempt, tries, aiResponse, error, tempFile, status>>
clientVars == <<localStorage, location, received>>
backupVars == <<runs, files, today>>
serverVars == <<docVars, clientVars, backupVars>>

vars == <<engineVars, pageVars, authVars, serverVars>>

monthlyInterestFactor(m) == NumDiv(NumDiv(m.interestRate, 100), 12)
\* mutation: the principal rate is left out
annualTotalRate_InterestOnly(m) == NumDiv(m.interestRate, 100)

annualTotalRate(m) == NumDiv(NumAdd(m.interestRate, m.principalRate), 100)
monthlyPayment(m) == NumDiv(NumMul(m.loanAmount, annualTotalRate(m)), 12)

\* mutation: the payment timing is ignored
paymentDate_AlwaysFirst(m, cur) == NewDate(getFullYear(cur), getMonth(cur), JNum(1))

paymentDate(m, cur) ==
    IF m.paymentTiming = "END_OF_MONTH"
    THEN NewDate(getFullYear(cur), JPlus(getMonth(cur), 1), JNum(0))
    ELSE NewDate(getFullYear(cur), getMonth(cur), JNum(1))

\* while (currentDate <= stopDateMonth)
LoopTest(cur, stop) == DateLeq(cur, stop)

\* mutation: the comparison is strict
PaymentPosted_Strict(m, cur, asOf) ==
    LET pd == paymentDate(m, cur)
    IN  DateLeq(pd, asOf) /\ pd # asOf

\* mutation: the cursor starts on the day of the start date
FirstCursor_AtStartDay(start) == start

\* let currentDate = new Date(start.getFullYear(), start.getMonth(), 1)
FirstCursor(start) == NewDate(getFullYear(start), getMonth(start), JNum(1))

\* mutation: the test of the payment date is dropped
PaymentPosted_Always(m, cur, asOf) == TRUE

\* if (paymentDate <= now)
PaymentPosted(m, cur, asOf) == DateLeq(paymentDate(m, cur), asOf)

interestPart(m, bal) == NumMul(bal, monthlyInterestFactor(m))
\* mutation: the payment is recomputed from the current balance
principalPart_Recomputed(m, bal) ==
    NumSub(NumDiv(NumMul(bal, annualTotalRate(m)), 12), interestPart(m, bal))

principalPart(m, bal) == NumSub(monthlyPayment(m), interestPart(m, bal))

\* mutation: the principal part is added
AmortizationStep_Adds(m, bal) == NumAdd(bal, principalPart(m, bal))

\* balance -= principalPart
AmortizationStep(m, bal) == NumSub(bal, principalPart(m, bal))

\* mutation: the floor is missing
FullyAmortized_Never(bal) == FALSE

\* mutation: a balance of exactly 0 goes on
FullyAmortized_Strict(bal) == bal.neg

\* if (balance <= 0) return 0
FullyAmortized(bal) == NumLeq(bal, NumZero)

\* mutation: the step writes the balance through to the terms
TermsAfterStep_WritesLoan(m, bal) == [m EXCEPT !.loanAmount = bal]

\* the terms object after a step: balance is a local, mortgage is only read
TermsAfterStep(m, bal) == m

NoCall == [has |-> FALSE, now |-> InvalidDate, ret |-> NumZero, steps |-> 0]

\* the page before any submit and any render
NoForm ==
    [ hasMortgage |-> "", loanAmount |-> << >>, mortgageStartDate |-> << >>,
      interestRate |-> << >>, principalRate |-> << >>, bankName |-> "",
      paymentTiming |-> "" ]

\* p.mortgage of a property without financing (undefined)
NoMortgage ==
    [ loanAmount |-> NumZero, startDate |-> << >>, interestRate |-> NumZero,
      principalRate |-> NumZero, bankName |-> "", paymentTiming |-> "" ]

NoRender ==
    [ has |-> FALSE, financed |-> FALSE, terms |-> NoMortgage, instant |-> InvalidDate,
      ret |-> NumZero ]

PageIdle ==
    /\ financed = TRUE
    /\ form = NoForm
    /\ shown = [has |-> FALSE, financed |-> FALSE, terms |-> NoMortgage,
                instant |-> InvalidDate]
    /\ before = NoRender

\* the server before any request
NoRequest == [kind |-> "none", sent |-> "", token |-> "", status |-> 0, handled |-> FALSE]

AuthIdle ==
    /\ activeSessions = << >>
    /\ time = 0
    /\ issued = << >>
    /\ loggedOut = {}
    /\ request = NoRequest
    /\ env = "plain"

\* no error thrown
NoError == [kind |-> "none", attempt |-> 0]

\* the route before any upload
DocIdle ==
    /\ handler = "server.js"
    /\ stage = "idle"
    /\ attempt = 1
    /\ tries = << >>
    /\ aiResponse = ""
    /\ error = NoError
    /\ tempFile = FALSE
    /\ status = 0

\* the browser before the login
ClientIdle ==
    /\ localStorage = [authToken |-> "", authExpiry |-> ""]
    /\ location = "/"
    /\ received = [op |-> "", status |-> 0]

BackupRuns == { "scheduled", "manual", "manual again" }

\* no backup has run
BackupIdle ==
    /\ runs = [r \in BackupRuns |-> [at |-> "idle", path |-> 0, success |-> FALSE]]
    /\ files = {}
    /\ today = 1

ServerIdle == DocIdle /\ ClientIdle /\ BackupIdle

Init ==
    /\ PageIdle
    /\ AuthIdle
    /\ ServerIdle
    /\ iters = 0
    /\ mortgage \in Mortgages
    /\ clock = ClockStart
    /\ pc = "idle"
    /\ now = InvalidDate
    /\ balance = NumZero
    /\ currentDate = InvalidDate
    /\ stopDateMonth = InvalidDate
    /\ ret = NumZero
    /\ steps = 0
    /\ prev = NoCall

\* a day passes before the first rendering or since the last one
Tick ==
    /\ \/ pc = "idle"
       \/ pc = "returned" /\ DayNumber(clock) - DayNumber(now) < MaxGap
    /\ DayNumber(clock) - DayNumber(ClockStart) < MaxDays
    /\ clock' = MkDate(clock.y, clock.m, clock.d + 1)
    /\ UNCHANGED <<mortgage, pc, now, balance, currentDate, stopDateMonth, ret, steps, prev,
                   iters>>
    /\ UNCHANGED <<pageVars, authVars, serverVars>>

\* new Date() at hour h of the clock's day
WallClock(h) == [clock EXCEPT !.h = h]

\* calculateRemainingBalance(p.mortgage), called at hour h of the clock's day,
\* runs up to the loop test
CallBody(h) ==
    /\ pc # "loop"
    /\ LET start == parseLocalDate(mortgage.startDate)
       IN  /\ now' = setHours(WallClock(h), 0)
           /\ currentDate' = FirstCursor(start)
    /\ stopDateMonth' = NewDate(getFullYear(now'), getMonth(now'), JNum(1))
    /\ balance' = mortgage.loanAmount
    /\ steps' = 0
    /\ iters' = 0
    /\ pc' = "loop"
    /\ prev' = IF pc = "returned"
               THEN [has |-> TRUE, now |-> now, ret |-> ret, steps |-> steps]
               ELSE prev
    /\ UNCHANGED <<mortgage, clock, ret>>

\* the card of the property is rendered at hour h of the clock's day
Call(h) ==
    /\ CallBody(h)
    /\ UNCHANGED <<pageVars, authVars, serverVars>>

\* an iteration whose payment has posted: one amortization step, the cursor
\* moves on, and the call returns 0 when the balance is used up
LoopApply ==
    /\ pc = "loop"
    /\ LoopTest(currentDate, stopDateMonth)
    /\ PaymentPosted(mortgage, currentDate, now)
    /\ balance' = AmortizationStep(mortgage, balance)
    /\ currentDate' = setMonth(currentDate, JPlus(getMonth(currentDate), 1))
    /\ steps' = steps + 1
    /\ iters' = iters + 1
    /\ mortgage' = TermsAfterStep(mortgage, balance')
    /\ IF FullyAmortized(balance')
       THEN pc' = "returned" /\ ret' = NumZero
       ELSE pc' = "loop" /\ ret' = ret
    /\ UNCHANGED <<clock, now, stopDateMonth, prev>>
    /\ UNCHANGED <<pageVars, authVars, serverVars>>

\* an iteration whose payment date is still to come: break, return balance
LoopBreak ==
    /\ pc = "loop"
    /\ LoopTest(currentDate, stopDateMonth)
    /\ ~PaymentPosted(mortgage, currentDate, now)
    /\ pc' = "returned"
    /\ ret' = balance
    /\ iters' = iters + 1
    /\ UNCHANGED <<mortgage, clock, now, balance, currentDate, stopDateMonth, steps, prev>>
    /\ UNCHANGED <<pageVars, authVars, serverVars>>

\* the loop test fails: return balance
LoopExit ==
    /\ pc = "loop"
    /\ ~LoopTest(currentDate, stopDateMonth)
    /\ pc' = "returned"
    /\ ret' = balance
    /\ UNCHANGED <<mortgage, clock, now, balance, currentDate, stopDateMonth, steps, prev,
                   iters>>
    /\ UNCHANGED <<pageVars, authVars, serverVars>>

Next ==
    \/ Tick
    \/ \E h \in RenderHours : Call(h)
    \/ LoopApply
    \/ LoopBreak
    \/ LoopExit

Spec == Init /\ [][Next]_vars

(***************************************************************************)
(* The engine on IEEE-754 doubles.  The terms hold the doubles that        *)
(* Number() makes of the form's inputs, and every operator of               *)
(* calculateRemainingBalance rounds its exact result to the nearest        *)
(* double, in the order in which the source evaluates it.                  *)
(***************************************************************************)
DoubleMortgageOf(loan, interest10, principal10, startStr, timing) ==
    [ loanAmount    |-> BinFromInt(loan),
      startDate     |-> startStr,
      interestRate  |-> DoubleFromTenths(interest10),
      principalRate |-> DoubleFromTenths(principal10),
      bankName      |-> "Sparkasse",
      paymentTiming |-> timing ]

\* <<loanAmount, interestRate, principalRate>> with the rates in tenths of a percent
DoubleAmounts ==
    { <<250000, 35, 20>>,     \* 3.5 % interest, 2.0 % principal
      <<200000, 19, 10>>,     \* rates that are no binary fractions
      <<250000, 35, 0>>,      \* interest only
      <<1000, 120, 0>>,       \* interest only, every quotient exact
      <<980478, 6002, 0>> }   \* interest only at 600.2 %

DoubleStartDates == { DateInputValue(2023, 12, 15), DateInputValue(2024, 1, 1) }

DoubleMortgages ==
    { DoubleMortgageOf(a[1], a[2], a[3], sd, t) :
        a \in DoubleAmounts, sd \in DoubleStartDates, t \in PaymentTimings }

\* mortgage.interestRate / 100 / 12
monthlyInterestFactor64(m) == DivToDouble(DivToDouble(m.interestRate, 100), 12)

\* (mortgage.interestRate + mortgage.principalRate) / 100
annualTotalRate64(m) ==
    DivToDouble(RoundToDouble(BinAdd(m.interestRate, m.principalRate)), 100)

\* (mortgage.loanAmount * annualTotalRate) / 12
monthlyPayment64(m) ==
    DivToDouble(RoundToDouble(BinMul(m.loanAmount, annualTotalRate64(m))), 12)

\* balance * monthlyInterestFactor
interestPart64(m, bal) == RoundToDouble(BinMul(bal, monthlyInterestFactor64(m)))

\* monthlyPayment - interestPart
principalPart64(m, bal) ==
    RoundToDouble(BinSub(monthlyPayment64(m), interestPart64(m, bal)))

\* balance -= principalPart
AmortizationStep64(m, bal) == RoundToDouble(BinSub(bal, principalPart64(m, bal)))

\* if (balance <= 0) return 0
FullyAmortized64(bal) == BinLeq(bal, BinZero)

\* loanAmount > 0, interestRate >= 0, principalRate >= 0 and a calendar start date
ValidTerms64(m) ==
    /\ m.loanAmount.m # << >> /\ ~m.loanAmount.neg
    /\ ~m.interestRate.neg
    /\ ~m.principalRate.neg
    /\ IsCalendarDate(m.startDate)

InitDouble ==
    /\ PageIdle
    /\ AuthIdle
    /\ ServerIdle
    /\ iters = 0
    /\ mortgage \in DoubleMortgages
    /\ clock = ClockStart
    /\ pc = "idle"
    /\ now = InvalidDate
    /\ balance = BinZero
    /\ currentDate = InvalidDate
    /\ stopDateMonth = InvalidDate
    /\ ret = BinZero
    /\ steps = 0
    /\ prev = [NoCall EXCEPT !.ret = BinZero]

\* an iteration whose payment has posted, on doubles
LoopApplyDouble ==
    /\ pc = "loop"
    /\ LoopTest(currentDate, stopDateMonth)
    /\ PaymentPosted(mortgage, currentDate, now)
    /\ balance' = AmortizationStep64(mortgage, balance)
    /\ currentDate' = setMonth(currentDate, JPlus(getMonth(currentDate), 1))
    /\ steps' = steps + 1
    /\ iters' = iters + 1
    /\ mortgage' = TermsAfterStep(mortgage, balance')
    /\ IF FullyAmortized64(balance')
       THEN pc' = "returned" /\ ret' = BinZero
       ELSE pc' = "loop" /\ ret' = ret
    /\ UNCHANGED <<clock, now, stopDateMonth, prev>>
    /\ UNCHANGED <<pageVars, authVars, serverVars>>

NextDouble ==
    \/ Tick
    \/ \E h \in RenderHours : Call(h)
    \/ LoopApplyDouble
    \/ LoopBreak
    \/ LoopExit

SpecDouble == InitDouble /\ [][NextDouble]_vars

\* the loop of calculateRemainingBalance from the cursor cur on, as a function:
\* the value returned and the number of steps applied
RECURSIVE RemainingLoop(_, _, _, _, _, _)
RemainingLoop(m, asOf, stop, cur, bal, n) ==
    IF ~LoopTest(cur, stop) THEN [ret |-> bal, steps |-> n]
    ELSE IF ~PaymentPosted(m, cur, asOf) THEN [ret |-> bal, steps |-> n]
    ELSE LET after == AmortizationStep(m, bal)
         IN  IF FullyAmortized(after) THEN [ret |-> NumZero, steps |-> n + 1]
             ELSE RemainingLoop(m, asOf, stop, setMonth(cur, JPlus(getMonth(cur), 1)),
                                after, n + 1)

\* calculateRemainingBalance(m) called at the instant new Date() = instant
calculateRemainingBalance(m, instant) ==
    LET asOf == setHours(instant, 0)
    IN  RemainingLoop(m, asOf, NewDate(getFullYear(asOf), getMonth(asOf), JNum(1)),
                      FirstCursor(parseLocalDate(m.startDate)), m.loanAmount, 0)

TypeOK ==
    /\ mortgage \in Mortgages
    /\ pc \in {"idle", "loop", "returned"}
    /\ steps \in Nat


(***************************************************************************)
(* The property form (handleSubmit) and the card of the property.  A       *)
(* number typed into an <input type="number"> is a string of an optional   *)
(* "-", digits and an optional "." with digits.                            *)
(***************************************************************************)
RECURSIVE DivPow10(_, _)
DivPow10(x, n) == IF n = 0 THEN x ELSE DivPow10(NumDiv(x, 10), n - 1)

\* Number(str) of the value of a number input (the empty string is 0)
NumberValue(str) ==
    LET negative == str # << >> /\ Head(str) = "-"
        unsigned == IF negative THEN Tail(str) ELSE str
        parts    == Split(unsigned, ".")
        whole    == NumFromInt(DecimalValue(parts[1]))
        fraction == IF Len(parts) < 2 THEN NumZero
                    ELSE DivPow10(NumFromInt(DecimalValue(parts[2])), Len(parts[2]))
        value    == NumAdd(whole, fraction)
    IN  IF negative THEN NumNeg(value) ELSE value

\* the FormData of the form with the financing fields shown, and without them
FormOn(loan, start, interest, principal, bank, timing) ==
    [ hasMortgage |-> "on", loanAmount |-> loan, mortgageStartDate |-> start,
      interestRate |-> interest, principalRate |-> principal, bankName |-> bank,
      paymentTiming |-> timing ]

FormOff == [NoForm EXCEPT !.hasMortgage = "off"]

LoanInputs == { <<"2", "5", "0", "0", "0", "0">>, <<"-", "1", "0", "0", "0">> }
InterestInputs == { <<"3", ".", "5">> }
PrincipalInputs == { <<"2", ".", "0">> }
StartInputs == { DateInputValue(2024, 1, 1), DateInputValue(2024, 1, 31) }
BankInputs == { "Sparkasse", "ING" }

Forms ==
    { FormOn(l, sd, i, p, b, t) :
        l \in LoanInputs, sd \in StartInputs, i \in InterestInputs,
        p \in PrincipalInputs, b \in BankInputs, t \in PaymentTimings }
    \cup { FormOff }

\* the hours of the day at which the page renders
PageHours == { 0, 13 }

\* the days on which the page is open
PageDays == { MkDate(2024, 0, 31), MkDate(2024, 1, 1) }

\* mutation: the checkbox is compared with the wrong value
SubmittedFinanced_True(f) == f.hasMortgage = "true"

\* const hasMortgage = formData.get('hasMortgage') === 'on'
SubmittedFinanced(f) == f.hasMortgage = "on"

\* updatedProp.mortgage = { ... } of the branch if (hasMortgage)
SubmittedMortgage(f) ==
    [ loanAmount    |-> NumberValue(f.loanAmount),
      startDate     |-> f.mortgageStartDate,
      interestRate  |-> NumberValue(f.interestRate),
      principalRate |-> NumberValue(f.principalRate),
      bankName      |-> f.bankName,
      paymentTiming |-> f.paymentTiming ]

\* updatedProp as far as the financing goes
updatedProp(f) ==
    IF SubmittedFinanced(f)
    THEN [financed |-> TRUE, mortgage |-> SubmittedMortgage(f)]
    ELSE [financed |-> FALSE, mortgage |-> NoMortgage]

\* db.saveProperty(updatedProp) followed by db.getProperties(): the record of
\* the property is replaced as a whole
saveProperty(stored, prop) == prop

PageInit ==
    /\ AuthIdle
    /\ ServerIdle
    /\ financed = FALSE
    /\ mortgage = NoMortgage
    /\ form = NoForm
    /\ shown = [has |-> FALSE, financed |-> FALSE, terms |-> NoMortgage,
                instant |-> InvalidDate]
    /\ before = NoRender
    /\ clock \in PageDays
    /\ pc = "idle"
    /\ now = InvalidDate
    /\ balance = NumZero
    /\ currentDate = InvalidDate
    /\ stopDateMonth = InvalidDate
    /\ ret = NumZero
    /\ steps = 0
    /\ iters = 0
    /\ prev = NoCall

\* handleSubmit with the form data f, on a page that has rendered its state
Submit(f) ==
    /\ pc = "returned"
    /\ form' = f
    /\ LET saved == saveProperty([financed |-> financed, mortgage |-> mortgage],
                                 updatedProp(f))
       IN  /\ financed' = saved.financed
           /\ mortgage' = saved.mortgage
    \* the frame of the last call is gone, and no call has seen the new terms
    /\ pc' = "idle"
    /\ now' = InvalidDate
    /\ balance' = NumZero
    /\ currentDate' = InvalidDate
    /\ stopDateMonth' = InvalidDate
    /\ steps' = 0
    /\ iters' = 0
    /\ prev' = NoCall
    /\ UNCHANGED <<clock, ret, shown, before, authVars, serverVars>>

\* what a render keeps of the one before it
Remember(h) ==
    /\ shown' = [has |-> TRUE, financed |-> financed, terms |-> mortgage,
                 instant |-> WallClock(h)]
    /\ before' = IF shown.has
                 THEN [has |-> TRUE, financed |-> shown.financed, terms |-> shown.terms,
                       instant |-> shown.instant, ret |-> ret]
                 ELSE before

\* the card is rendered at hour h:
\* const remainingBalance = p.mortgage ? calculateRemainingBalance(p.mortgage) : 0
Render(h) ==
    /\ financed
    /\ CallBody(h)
    /\ Remember(h)
    /\ UNCHANGED <<financed, form, authVars, serverVars>>

RenderUnfinanced(h) ==
    /\ ~financed
    /\ pc # "loop"
    /\ pc' = "returned"
    /\ ret' = NumZero
    /\ Remember(h)
    /\ UNCHANGED <<mortgage, clock, now, balance, currentDate, stopDateMonth, steps, prev,
                   iters>>
    /\ UNCHANGED <<financed, form, authVars, serverVars>>

PageNext ==
    \/ \E f \in Forms : Submit(f)
    \/ \E h \in PageHours : Render(h)
    \/ \E h \in PageHours : RenderUnfinanced(h)
    \/ LoopApply
    \/ LoopBreak
    \/ LoopExit

SpecForm == PageInit /\ [][PageNext]_vars

(***************************************************************************)
(* The sessions of the server (auth-middleware.js) and the routes that use  *)
(* them.  time is Date.now() in milliseconds since the server started.      *)
(***************************************************************************)
MaxHalfDays == 3
MaxMs == 1

HalfDay == 12 * 60 * 60 * 1000

\* const SESSION_DURATION = 24 * 60 * 60 * 1000
SESSION_DURATION == 24 * 60 * 60 * 1000

\* the values crypto.randomBytes(32).toString('hex') takes here, and a token
\* the server never issued
Tokens == { "a3f1", "9c2e" }
ForgedToken == "0000"

AdminPassword == "secret"
Passwords == { AdminPassword, "guess", "" }

\* the Authorization header as its parts, and the sessionToken cookie
Requests ==
    { [authorization |-> <<"Bearer ", t>>, cookie |-> ""] : t \in Tokens \cup {ForgedToken} }
    \cup { [authorization |-> << >>, cookie |-> t] : t \in Tokens \cup {""} }
    \cup { [authorization |-> <<"Bearer ">>, cookie |-> t] : t \in Tokens }
    \cup { [authorization |-> <<"Bearer ", ForgedToken>>, cookie |-> t] : t \in Tokens }
    \cup { [authorization |-> <<"Bearer ", t>>, cookie |-> ForgedToken] : t \in Tokens }

\* a client sends no token the server has yet to draw: randomBytes(32) is
\* not guessed
Sendable(req) ==
    /\ req.cookie \in DOMAIN issued \cup {ForgedToken, ""}
    /\ \A i \in DOMAIN req.authorization :
           req.authorization[i] \in DOMAIN issued \cup {ForgedToken, "Bearer "}

\* req.headers.authorization?.replace('Bearer ', '') || req.cookies?.sessionToken
TokenOf(req) ==
    LET header   == req.authorization
        replaced == IF header # << >> /\ Head(header) = "Bearer " THEN Tail(header)
                    ELSE header
        bearer   == IF replaced = << >> THEN "" ELSE Head(replaced)
    IN  IF bearer # "" THEN bearer ELSE req.cookie

\* activeSessions.delete(token)
Deleted(sessions, token) == [t \in DOMAIN sessions \ {token} |-> sessions[t]]

\* mutation: a session is over at its expiry time already
Expired_AtExpiry(at, expiry) == at >= expiry

\* now > expiry
Expired(at, expiry) == at > expiry

\* cleanupExpiredSessions
cleanupExpiredSessions(sessions, at) ==
    [t \in {x \in DOMAIN sessions : ~Expired(at, sessions[x])} |-> sessions[t]]

\* mutation: the expiry of a stored session is not looked at
isValidSession_NoExpiry(sessions, token, at) == token # "" /\ token \in DOMAIN sessions

\* the value isValidSession(token) returns
isValidSession(sessions, token, at) ==
    /\ token # ""
    /\ token \in DOMAIN sessions
    /\ sessions[token] # 0
    /\ ~Expired(at, sessions[token])

\* the session store isValidSession(token) leaves behind
SessionsAfterCheck(sessions, token, at) ==
    IF /\ token # ""
       /\ token \in DOMAIN sessions
       /\ sessions[token] # 0
       /\ Expired(at, sessions[token])
    THEN Deleted(sessions, token)
    ELSE sessions

\* mutation: logout ends every session
logout_ClearsAll(sessions, token) == [t \in {} |-> 0]

\* logout(token)
logout(sessions, token) == IF token # "" THEN Deleted(sessions, token) ELSE sessions

\* the password settings of the environment the server is started in: a
\* password (APP_PASSWORD; APP_PASSWORD_HASH, "hash", admits the same
\* passwords) or none
Environments == { "plain", "none" }

\* mutation: a server without a configured password lets everybody in
ValidPassword_Unconfigured(environment, password) ==
    environment = "none" \/ password = AdminPassword

\* isValid of login: bcrypt.compare(password, APP_PASSWORD_HASH), or
\* password === APP_PASSWORD, or the error thrown when neither is configured
ValidPassword(environment, password) ==
    environment \in {"hash", "plain"} /\ password = AdminPassword

AuthInit ==
    /\ activeSessions = << >>
    /\ time = 0
    /\ issued = << >>
    /\ loggedOut = {}
    /\ request = NoRequest
    /\ env \in Environments
    /\ ServerIdle
    /\ financed = FALSE
    /\ mortgage = NoMortgage
    /\ form = NoForm
    /\ shown = [has |-> FALSE, financed |-> FALSE, terms |-> NoMortgage,
                instant |-> InvalidDate]
    /\ before = NoRender
    /\ clock = ClockStart
    /\ pc = "idle"
    /\ now = InvalidDate
    /\ balance = NumZero
    /\ currentDate = InvalidDate
    /\ stopDateMonth = InvalidDate
    /\ ret = NumZero
    /\ steps = 0
    /\ iters = 0
    /\ prev = NoCall

\* POST /api/auth/login with a password: login(password) and the response
Login(password) ==
    /\ IF password = ""
       THEN /\ request' = [kind |-> "login", sent |-> password, token |-> "",
                           status |-> 400, handled |-> FALSE]
            /\ UNCHANGED <<activeSessions, issued>>
       ELSE IF ~ValidPassword(env, password)
       THEN /\ request' = [kind |-> "login", sent |-> password, token |-> "",
                           status |-> 401, handled |-> FALSE]
            /\ UNCHANGED <<activeSessions, issued>>
       ELSE \E token \in Tokens \ DOMAIN issued :
            /\ activeSessions' = [t \in DOMAIN activeSessions \cup {token} |->
                                    IF t = token THEN time + SESSION_DURATION
                                    ELSE activeSessions[t]]
            /\ issued' = [t \in DOMAIN issued \cup {token} |->
                            IF t = token THEN time ELSE issued[t]]
            /\ request' = [kind |-> "login", sent |-> password, token |-> token,
                           status |-> 200, handled |-> TRUE]
    /\ UNCHANGED <<time, loggedOut, env, engineVars, pageVars, serverVars>>

\* POST /api/auth/logout
Logout(req) ==
    /\ Sendable(req)
    /\ activeSessions' = logout(activeSessions, TokenOf(req))
    /\ loggedOut' = IF TokenOf(req) # "" THEN loggedOut \cup {TokenOf(req)} ELSE loggedOut
    /\ request' = [kind |-> "logout", sent |-> req, token |-> TokenOf(req), status |-> 200,
                   handled |-> TRUE]
    /\ UNCHANGED <<time, issued, env, engineVars, pageVars, serverVars>>

\* a request to a route behind requireAuth
Protected(req) ==
    /\ Sendable(req)
    /\ activeSessions' = SessionsAfterCheck(activeSessions, TokenOf(req), time)
    /\ request' = IF isValidSession(activeSessions, TokenOf(req), time)
                  THEN [kind |-> "api", sent |-> req, token |-> TokenOf(req), status |-> 200,
                        handled |-> TRUE]
                  ELSE [kind |-> "api", sent |-> req, token |-> TokenOf(req), status |-> 401,
                        handled |-> FALSE]
    /\ UNCHANGED <<time, issued, loggedOut, env, engineVars, pageVars, serverVars>>

\* setInterval(cleanupExpiredSessions, 60 * 60 * 1000)
Cleanup ==
    /\ activeSessions' = cleanupExpiredSessions(activeSessions, time)
    /\ request' = NoRequest
    /\ UNCHANGED <<time, issued, loggedOut, env, engineVars, pageVars, serverVars>>

\* time passes between two requests
AdvanceTime(d) ==
    /\ IF d = 1 THEN time % HalfDay < MaxMs ELSE time + d <= MaxHalfDays * HalfDay + MaxMs
    /\ time' = time + d
    /\ request' = NoRequest
    /\ UNCHANGED <<activeSessions, issued, loggedOut, env, engineVars, pageVars, serverVars>>

AuthNext ==
    \/ \E password \in Passwords : Login(password)
    \/ \E req \in Requests : Logout(req)
    \/ \E req \in Requests : Protected(req)
    \/ Cleanup
    \/ \E d \in {1, HalfDay} : AdvanceTime(d)

SpecAuth == AuthInit /\ [][AuthNext]_vars

(***************************************************************************)
(* POST /api/documents/analyze in its two versions, with retryWithBackoff  *)
(* around the call of the model.  Each action is the code between two      *)
(* awaits.                                                                 *)
(***************************************************************************)
\* mutation: one more attempt
maxRetries_Four == 3 + 1

\* async function retryWithBackoff(fn, maxRetries = 3)
maxRetries == 3

Handlers == { "server.js", "part_002" }

\* what a call of ai.models.generateContent ends in: an error, or a response
\* whose text is valid data, JSON that fails the validation, or no JSON
AiOutcomes == { "error", "valid", "invalid", "garbage" }

\* everything outside the handler stays as it is
DocFrame == UNCHANGED <<engineVars, pageVars, authVars, clientVars, backupVars>>

\* the request arrives behind requireAuth and multer, up to the first await
Receive(version, hasFile, hasKey) ==
    /\ stage \in {"idle", "responded"}
    /\ handler' = version
    /\ attempt' = 1
    /\ tries' = << >>
    /\ aiResponse' = ""
    /\ IF ~hasFile
       THEN tempFile' = FALSE /\ status' = 400 /\ error' = NoError /\ stage' = "responded"
       ELSE /\ tempFile' = TRUE
            /\ status' = 0
            /\ IF hasKey THEN error' = NoError /\ stage' = "ai"
               ELSE error' = [kind |-> "API_KEY", attempt |-> 0] /\ stage' = "catch"
    /\ DocFrame

\* retryWithBackoff: one pass of the for loop, fn() ending in outcome
Attempt(outcome) ==
    /\ stage = "ai"
    /\ attempt <= maxRetries
    /\ tries' = Append(tries, outcome)
    /\ IF outcome # "error"
       THEN aiResponse' = outcome /\ stage' = "parse" /\ error' = error
       ELSE IF attempt = maxRetries
       THEN /\ error' = [kind |-> "ai", attempt |-> attempt]
            /\ stage' = "catch"
            /\ aiResponse' = aiResponse
       ELSE stage' = "backoff" /\ UNCHANGED <<aiResponse, error>>
    /\ UNCHANGED <<handler, attempt, tempFile, status>>
    /\ DocFrame

\* retryWithBackoff: the setTimeout of the backoff is over
Backoff ==
    /\ stage = "backoff"
    /\ attempt' = attempt + 1
    /\ stage' = "ai"
    /\ UNCHANGED <<handler, tries, aiResponse, error, tempFile, status>>
    /\ DocFrame

\* JSON.parse(response.text) and validateAndSanitize(parsedResponse)
ParseAndValidate ==
    /\ stage = "parse"
    /\ IF aiResponse = "garbage"
       THEN error' = [kind |-> "parse", attempt |-> 0] /\ stage' = "catch" /\ status' = status
       ELSE IF handler = "server.js"
       THEN stage' = "drive" /\ UNCHANGED <<error, status>>
       ELSE IF aiResponse = "invalid"
       THEN stage' = "responded" /\ status' = 422 /\ error' = error
       ELSE stage' = "unlink" /\ UNCHANGED <<error, status>>
    /\ UNCHANGED <<handler, attempt, tries, aiResponse, tempFile>>
    /\ DocFrame

\* server.js, step 2: the lookup of the property and uploadDocument
UploadToDrive(ok) ==
    /\ stage = "drive"
    /\ IF ok THEN stage' = "db" /\ error' = error
       ELSE stage' = "catch" /\ error' = [kind |-> "drive", attempt |-> 0]
    /\ UNCHANGED <<handler, attempt, tries, aiResponse, tempFile, status>>
    /\ DocFrame

\* server.js, step 3: INSERT INTO documents
SaveMetadata(ok) ==
    /\ stage = "db"
    /\ IF ok THEN stage' = "unlink" /\ error' = error
       ELSE stage' = "catch" /\ error' = [kind |-> "db", attempt |-> 0]
    /\ UNCHANGED <<handler, attempt, tries, aiResponse, tempFile, status>>
    /\ DocFrame

\* fs.unlinkSync(req.file.path); res.json({ success: true, ... })
Finish ==
    /\ stage = "unlink"
    /\ tempFile' = FALSE
    /\ status' = 200
    /\ stage' = "responded"
    /\ UNCHANGED <<handler, attempt, tries, aiResponse, error>>
    /\ DocFrame

\* the catch block: logAIFailure, unlink if the file exists, res.status(500)
Fail ==
    /\ stage = "catch"
    /\ tempFile' = FALSE
    /\ status' = 500
    /\ stage' = "responded"
    /\ UNCHANGED <<handler, attempt, tries, aiResponse, error>>
    /\ DocFrame

DocInit ==
    /\ PageIdle
    /\ AuthIdle
    /\ ServerIdle
    /\ mortgage = NoMortgage
    /\ clock = ClockStart
    /\ pc = "idle"
    /\ now = InvalidDate
    /\ balance = NumZero
    /\ currentDate = InvalidDate
    /\ stopDateMonth = InvalidDate
    /\ ret = NumZero
    /\ steps = 0
    /\ iters = 0
    /\ prev = NoCall

DocNext ==
    \/ \E version \in Handlers, hasFile \in BOOLEAN, hasKey \in BOOLEAN :
          Receive(version, hasFile, hasKey)
    \/ \E outcome \in AiOutcomes : Attempt(outcome)
    \/ Backoff
    \/ ParseAndValidate
    \/ \E ok \in BOOLEAN : UploadToDrive(ok)
    \/ \E ok \in BOOLEAN : SaveMetadata(ok)
    \/ Finish
    \/ Fail

SpecUpload == DocInit /\ [][DocNext]_vars

(***************************************************************************)
(* The api client of the browser: apiRequest, which every operation but    *)
(* uploadDocument goes through, and uploadDocument with its own fetch.     *)
(***************************************************************************)
\* the operations of api that call apiRequest
RequestOperations ==
    { "getProperties", "saveProperty", "deleteProperty", "getTenants", "getTransactions",
      "getDocuments", "deleteDocument", "getCategories", "getCounterparties",
      "getRecurringPayments", "getSettings", "manualBackup" }

\* the statuses a response comes with
ResponseStatuses == { 200, 401, 404, 500 }

ClientFrame == UNCHANGED <<engineVars, pageVars, authVars, docVars, backupVars>>

\* Login.tsx after a successful login: the token and its expiry are stored
SignIn(token) ==
    /\ localStorage' = [authToken |-> token, authExpiry |-> "expiresAt"]
    /\ location' = "/"
    /\ received' = [op |-> "login", status |-> 200]
    /\ ClientFrame

\* apiRequest(endpoint, options) of the operation op, answered with status st
apiRequest(op, st) ==
    /\ received' = [op |-> op, status |-> st]
    /\ IF st = 401
       THEN /\ localStorage' = [authToken |-> "", authExpiry |-> ""]
            /\ location' = "/#/login"
       ELSE UNCHANGED <<localStorage, location>>
    /\ ClientFrame

\* api.uploadDocument(file, ...), answered with status st
uploadDocument(st) ==
    /\ received' = [op |-> "uploadDocument", status |-> st]
    /\ UNCHANGED <<localStorage, location>>
    /\ ClientFrame

ClientNext ==
    \/ \E token \in Tokens : SignIn(token)
    \/ \E op \in RequestOperations, st \in ResponseStatuses : apiRequest(op, st)
    \/ \E st \in ResponseStatuses : uploadDocument(st)

SpecClient == DocInit /\ [][ClientNext]_vars

(***************************************************************************)
(* performBackup, called by the weekly scheduler and by POST               *)
(* /api/backup/manual.  A run is at one of its two awaits ("creating": the  *)
(* SQLite backup, "uploading": driveClient.files.create) or outside them.   *)
(* The temp file is immopi_backup_<date>.db; a path is the day it names.    *)
(***************************************************************************)
MaxBackupDays == 2

BackupFrame == UNCHANGED <<engineVars, pageVars, authVars, docVars, clientVars>>

\* the catch block: if (fs.existsSync(tempBackupPath)) fs.unlinkSync(tempBackupPath)
CleanedUp(existing, path) == existing \ {path}

\* performBackup up to its first await; ready: the database, the Drive client
\* and the folder id are there
StartBackup(r, ready) ==
    /\ runs[r].at \in {"idle", "done"}
    /\ IF ready
       THEN /\ runs' = [runs EXCEPT ![r] = [at |-> "creating", path |-> today,
                                              success |-> FALSE]]
            /\ files' = files \cup {today}
       ELSE /\ runs' = [runs EXCEPT ![r] = [at |-> "done", path |-> today,
                                              success |-> FALSE]]
            /\ files' = CleanedUp(files, today)
    /\ UNCHANGED today
    /\ BackupFrame

\* the callback of sourceDb.backup(tempBackupPath), and the start of the upload
BackupWritten(r, ok) ==
    /\ runs[r].at = "creating"
    /\ IF ok
       THEN /\ runs' = [runs EXCEPT ![r].at = "uploading"]
            /\ files' = files \cup {runs[r].path}
       ELSE /\ runs' = [runs EXCEPT ![r].at = "done"]
            /\ files' = CleanedUp(files, runs[r].path)
    /\ UNCHANGED today
    /\ BackupFrame

\* driveClient.files.create has settled: fs.unlinkSync(tempBackupPath), or the
\* catch block
BackupUploaded(r, ok) ==
    /\ runs[r].at = "uploading"
    \* unlinkSync throws when the file is gone, and the run ends in the catch block
    /\ runs' = [runs EXCEPT ![r].at = "done",
                            ![r].success = ok /\ runs[r].path \in files]
    /\ files' = CleanedUp(files, runs[r].path)
    /\ UNCHANGED today
    /\ BackupFrame

\* the date changes
Midnight ==
    /\ today < MaxBackupDays
    /\ today' = today + 1
    /\ UNCHANGED <<runs, files>>
    /\ BackupFrame

BackupNext ==
    \/ \E r \in BackupRuns, ready \in BOOLEAN : StartBackup(r, ready)
    \/ \E r \in BackupRuns, ok \in BOOLEAN : BackupWritten(r, ok)
    \/ \E r \in BackupRuns, ok \in BOOLEAN : BackupUploaded(r, ok)
    \/ Midnight

SpecBackup == DocInit /\ [][BackupNext]_vars

(***************************************************************************)
(* Calendar notions the properties are stated in, taken from the fields of *)
(* the mortgage and of the as-of date: <<year, 0-based month, day>>.       *)
(***************************************************************************)
StartOf(m) ==
    LET parts == Split(m.startDate, "-")
    IN  <<Number(parts[1]).v, Number(parts[2]).v - 1, Number(parts[3]).v>>

AsOf == <<now.y, now.m, now.d>>

CalLt(a, b) ==
    \/ a[1] < b[1]
    \/ a[1] = b[1] /\ a[2] < b[2]
    \/ a[1] = b[1] /\ a[2] = b[2] /\ a[3] < b[3]

CalLeq(a, b) == a = b \/ CalLt(a, b)

\* the day on which the payment of month mo of year y is due
DueDate(timing, y, mo) ==
    <<y, mo, IF timing = "END_OF_MONTH" THEN DaysInMonth(y, mo) ELSE 1>>

\* the months from the start month through the as-of month whose payment is
\* due on or before the as-of date, as indices 12 * year + month
PostedMonths(m, asOf) ==
    { i \in (12 * StartOf(m)[1] + StartOf(m)[2])..(12 * asOf[1] + asOf[2]) :
        CalLeq(DueDate(m.paymentTiming, i \div 12, i % 12), asOf) }

\* the first payment date on or after the start date
FirstPaymentFrom(m) ==
    LET s == StartOf(m)
        own == DueDate(m.paymentTiming, s[1], s[2])
    IN  IF CalLeq(<<s[1], s[2], s[3]>>, own) THEN own
        ELSE IF s[2] = 11 THEN DueDate(m.paymentTiming, s[1] + 1, 0)
        ELSE DueDate(m.paymentTiming, s[1], s[2] + 1)

Returned == pc = "returned"

Scenario1Terms == MortgageOf(250000, 35, 20, DateInputValue(2024, 1, 1), "START_OF_MONTH")
Scenario3Terms == MortgageOf(250000, 35, 20, DateInputValue(2024, 1, 1), "END_OF_MONTH")
Scenario4Terms == MortgageOf(1000, 0, 12000, DateInputValue(2024, 1, 1), "START_OF_MONTH")

Scenario1 == Returned /\ mortgage = Scenario1Terms /\ AsOf = <<2024, 0, 1>>
Scenario3 == Returned /\ mortgage = Scenario3Terms /\ AsOf = <<2024, 1, 15>>
Scenario4 == Returned /\ mortgage = Scenario4Terms /\ AsOf = <<2024, 2, 1>>

(***************************************************************************)
(* C1: for valid terms and any as-of date, the returned balance is >= 0.   *)
(***************************************************************************)
C1_NonNegative ==
    (Returned /\ ValidTerms(mortgage)) => NumLeq(NumZero, ret)

\* a call whose balance was used up returned 0
C1_Witness ==
    Returned /\ ValidTerms(mortgage) /\ steps >= 1 /\ FullyAmortized(balance) /\ ret = NumZero

(***************************************************************************)
(* C2: for fixed valid terms the balance returned for a later as-of date   *)
(* is never greater than the balance returned for an earlier one.          *)
(***************************************************************************)
C2_MonotonicNonIncrease ==
    (Returned /\ prev.has /\ ValidTerms(mortgage) /\ DateLeq(prev.now, now))
        => NumLeq(ret, prev.ret)

\* two calls on different days, the later one returning strictly less
C2_Witness ==
    /\ Returned /\ prev.has /\ ValidTerms(mortgage)
    /\ DateLeq(prev.now, now) /\ prev.now # now
    /\ NumLt(ret, prev.ret)

(***************************************************************************)
(* C3: while the balance stays above 0, the number of steps applied is the *)
(* number of months from the start month through the as-of month whose     *)
(* payment date (the 1st under START_OF_MONTH, the last day of the month   *)
(* under END_OF_MONTH) is on or before the as-of date; a payment due on    *)
(* the as-of date counts (one step in scenarios 1 and 3).                  *)
(***************************************************************************)
C3_StepCount ==
    /\ (Returned /\ ValidTerms(mortgage) /\ ~FullyAmortized(balance))
           => steps = Cardinality(PostedMonths(mortgage, AsOf))
    /\ Scenario1 => steps = 1
    /\ Scenario3 => steps = 1

\* END_OF_MONTH, start 2024-01, as of 2024-02-15: January posted, February not
C3_Witness == Scenario3 /\ steps = 1

(***************************************************************************)
(* C4 as stated: for every as-of date earlier than startDate, with either  *)
(* timing, no step is applied and exactly loanAmount is returned.          *)
(***************************************************************************)
C4_BeforeStartDate ==
    (Returned /\ ValidTerms(mortgage) /\ CalLt(AsOf, StartOf(mortgage)))
        => (steps = 0 /\ ret = mortgage.loanAmount)

(***************************************************************************)
(* C4 amended: for every as-of date earlier than the first day of          *)
(* startDate's month with either timing, and for every as-of date earlier  *)
(* than startDate under END_OF_MONTH, the call returns, applies no step    *)
(* and returns exactly loanAmount.                                         *)
(***************************************************************************)
C4_BeforeStartMonth ==
    ( /\ Returned
      /\ ValidTerms(mortgage)
      /\ \/ CalLt(AsOf, <<StartOf(mortgage)[1], StartOf(mortgage)[2], 1>>)
         \/ mortgage.paymentTiming = "END_OF_MONTH" /\ CalLt(AsOf, StartOf(mortgage)) )
        => (steps = 0 /\ ret = mortgage.loanAmount)

\* END_OF_MONTH, as of a day of the start month before a mid-month start date
C4_Witness ==
    /\ Returned /\ ValidTerms(mortgage)
    /\ mortgage.paymentTiming = "END_OF_MONTH"
    /\ CalLt(AsOf, StartOf(mortgage))
    /\ AsOf[2] = StartOf(mortgage)[2]
    /\ ret = mortgage.loanAmount

(***************************************************************************)
(* C5 as stated: for any as-of date strictly before the first payment date *)
(* that falls on or after startDate, the result equals loanAmount.         *)
(***************************************************************************)
C5_BeforeFirstPaymentAfterStart ==
    (Returned /\ ValidTerms(mortgage) /\ CalLt(AsOf, FirstPaymentFrom(mortgage)))
        => ret = mortgage.loanAmount

(***************************************************************************)
(* C5 amended: for any as-of date strictly before the payment date of      *)
(* startDate's own month (its 1st under START_OF_MONTH, its last day under *)
(* END_OF_MONTH), the result equals loanAmount.                            *)
(***************************************************************************)
C5_PreOriginationIdentity ==
    ( /\ Returned
      /\ ValidTerms(mortgage)
      /\ CalLt(AsOf, DueDate(mortgage.paymentTiming,
                             StartOf(mortgage)[1], StartOf(mortgage)[2])) )
        => ret = mortgage.loanAmount

\* END_OF_MONTH, as of a day on or after startDate before the month's last day
C5_Witness ==
    /\ Returned /\ ValidTerms(mortgage)
    /\ mortgage.paymentTiming = "END_OF_MONTH"
    /\ NumLt(NumZero, mortgage.principalRate)
    /\ CalLeq(StartOf(mortgage), AsOf)
    /\ CalLt(AsOf, DueDate("END_OF_MONTH", StartOf(mortgage)[1], StartOf(mortgage)[2]))
    /\ ret = mortgage.loanAmount

(***************************************************************************)
(* C6: a call on terms that violate the data-model invariants fails with   *)
(* an InvalidTermsError; it never returns a balance.                       *)
(***************************************************************************)
C6_InvalidTermsRejected ==
    ~ValidTerms(mortgage) => ~Returned

(***************************************************************************)
(* C7: once a step brings the balance to 0 or below, the call returns      *)
(* exactly 0 right after that step: no iteration starts with a balance     *)
(* <= 0, and scenario 4 returns 0 after its single step.                   *)
(***************************************************************************)
C7_FullAmortizationFloor ==
    ValidTerms(mortgage) =>
        /\ pc = "loop" => NumLt(NumZero, balance)
        /\ (Returned /\ FullyAmortized(balance)) => ret = NumZero
        /\ Scenario4 => (ret = NumZero /\ steps = 1)

\* loanAmount 1000, 0 % interest, 1200 % principal, two months after the start
C7_Witness == Scenario4 /\ ret = NumZero /\ FullyAmortized(balance)

(***************************************************************************)
(* C8: under END_OF_MONTH, for a month not before the start month, the     *)
(* result as of the month's last day is the result as of the day before    *)
(* after one more amortization step (0 if the step uses the balance up).   *)
(***************************************************************************)
C8_BoundarySensitivity ==
    ( /\ Returned /\ prev.has
      /\ ValidTerms(mortgage)
      /\ mortgage.paymentTiming = "END_OF_MONTH"
      /\ AsOf[3] = DaysInMonth(AsOf[1], AsOf[2])
      /\ <<prev.now.y, prev.now.m, prev.now.d>> = <<AsOf[1], AsOf[2], AsOf[3] - 1>>
      /\ CalLeq(<<StartOf(mortgage)[1], StartOf(mortgage)[2], 1>>, AsOf) )
        => LET stepped == NumSub(prev.ret,
                                 NumSub(monthlyPayment(mortgage),
                                        NumMul(prev.ret, monthlyInterestFactor(mortgage))))
           IN  ret = IF NumLeq(stepped, NumZero) THEN NumZero ELSE stepped

\* the last day of a month against the day before, with a payment in between
C8_Witness ==
    /\ Returned /\ prev.has /\ ValidTerms(mortgage)
    /\ mortgage.paymentTiming = "END_OF_MONTH"
    /\ AsOf[3] = DaysInMonth(AsOf[1], AsOf[2])
    /\ <<prev.now.y, prev.now.m, prev.now.d>> = <<AsOf[1], AsOf[2], AsOf[3] - 1>>
    /\ NumLt(ret, prev.ret)
    /\ NumLt(NumZero, ret)
    /\ steps >= 2

(***************************************************************************)
(* C9: every step uses the one payment loanAmount * (interestRate +        *)
(* principalRate) / 100 / 12, and nothing is rounded between steps: after  *)
(* n steps the balance is n applications of                                *)
(* B -> B * (1 + interestRate / 1200) - monthlyPayment to loanAmount.      *)
(***************************************************************************)
RECURSIVE FixedPaymentBalance(_, _)
FixedPaymentBalance(m, n) ==
    IF n = 0 THEN m.loanAmount
    ELSE NumSub(NumMul(FixedPaymentBalance(m, n - 1),
                       NumAdd(NumFromInt(1), NumDiv(m.interestRate, 1200))),
                NumDiv(NumMul(m.loanAmount, NumAdd(m.interestRate, m.principalRate)), 1200))

C10_RoundedBalance34 ==
    (Scenario1 \/ Scenario3) => ToCents(ret) = 24958334

(***************************************************************************)
(* C10 amended: in scenarios 1 and 3 exactly one step is applied and the   *)
(* balance, rounded to two decimals, is 249583.33.                         *)
(***************************************************************************)
C10_RoundedBalance33 ==
    (Scenario1 \/ Scenario3) => (steps = 1 /\ ToCents(ret) = 24958333)

\* START_OF_MONTH, as of the start date 2024-01-01
C10_Witness == Scenario1 /\ ToCents(ret) = 24958333

(***************************************************************************)
(* Months as indices 12 * year + month: the month under the cursor, the    *)
(* month of the as-of date and the month of the start date.                *)
(***************************************************************************)
CursorMonth == 12 * currentDate.y + currentDate.m
AsOfMonth == 12 * now.y + now.m
StartMonth(m) == 12 * StartOf(m)[1] + StartOf(m)[2]

(***************************************************************************)
(* C11: when the payment date of the month under the cursor is later than  *)
(* the as-of date, the loop stops in that iteration: the balance and the   *)
(* cursor stay as they are, no step is applied, and the balance reached so *)
(* far is returned.                                                        *)
(***************************************************************************)
C11_BreakStopsAtOnce ==
    [][ ( /\ pc = "loop"
          /\ ValidTerms(mortgage)
          /\ CursorMonth <= AsOfMonth
          /\ CalLt(AsOf, DueDate(mortgage.paymentTiming, currentDate.y, currentDate.m)) )
        => ( /\ pc' = "returned"
             /\ ret' = balance
             /\ balance' = balance
             /\ currentDate' = currentDate
             /\ steps' = steps
             /\ iters' = iters + 1 ) ]_vars

\* a call that applied a step and then left the loop at a payment still to come
C11_Witness ==
    /\ Returned /\ ValidTerms(mortgage)
    /\ steps >= 1
    /\ iters = steps + 1
    /\ CursorMonth <= AsOfMonth
    /\ CalLt(AsOf, DueDate(mortgage.paymentTiming, currentDate.y, currentDate.m))
    /\ ret = balance

\* the bounds of a call on its iterations, its steps and its cursor
C14_LoopBounds ==
    pc # "idle" =>
        /\ steps <= iters
        /\ pc = "loop" => steps = iters
        /\ IF parseLocalDate(mortgage.startDate).nan
           THEN iters = 0
           ELSE /\ iters <= (IF AsOfMonth < StartMonth(mortgage) THEN 0
                             ELSE AsOfMonth - StartMonth(mortgage) + 1)
                /\ CursorMonth = StartMonth(mortgage) + steps
                /\ currentDate.d = 1

(***************************************************************************)
(* C14: the loop ends: it enters its body at most once per calendar month  *)
(* from the start month through the as-of month, never when the as-of      *)
(* month precedes the start month, every iteration that goes on moves the  *)
(* cursor to the first day of the next month (December to January of the   *)
(* next year), and every step of the loop returns or counts an iteration.  *)
(***************************************************************************)
C14_BoundedLoop ==
    /\ []C14_LoopBounds
    /\ [][pc = "loop" => (pc' = "returned" \/ iters' = iters + 1)]_vars

\* a loop that started in December 2023 and went on into 2024
C14_Witness ==
    /\ Returned
    /\ ~parseLocalDate(mortgage.startDate).nan
    /\ StartOf(mortgage)[1] = 2023
    /\ currentDate.y = 2024
    /\ iters >= 3
    /\ iters = AsOfMonth - StartMonth(mortgage) + 1

(***************************************************************************)
(* Two renders of the card, the last one and the one before it              *)
(***************************************************************************)
SameDay(a, b) == ~a.nan /\ ~b.nan /\ a.y = b.y /\ a.m = b.m /\ a.d = b.d

\* the last render and the one before it both called the engine, and the
\* last call has returned
TwoCalls == Returned /\ shown.has /\ shown.financed /\ before.has /\ before.financed

\* the start dates of both renders are calendar dates of the same month
SameStartMonth ==
    /\ IsCalendarDate(shown.terms.startDate)
    /\ IsCalendarDate(before.terms.startDate)
    /\ StartOf(shown.terms)[1] = StartOf(before.terms)[1]
    /\ StartOf(shown.terms)[2] = StartOf(before.terms)[2]

\* C12: two invocations with identical terms whose as-of instants fall on the
\* same local calendar day, at any time of day, return the same balance.
C12_CalendarDayOnly ==
    (TwoCalls /\ shown.terms = before.terms /\ SameDay(shown.instant, before.instant))
        => ret = before.ret

C12_Witness ==
    /\ TwoCalls
    /\ shown.terms = before.terms
    /\ SameDay(shown.instant, before.instant)
    /\ shown.instant.h # before.instant.h
    /\ steps >= 1
    /\ ret = before.ret

\* C13: for two valid start dates in the same year and month, with all other
\* terms and asOf equal, the engine returns the same balance.
C13_StartDayIgnored ==
    (/\ TwoCalls
     /\ SameStartMonth
     /\ [shown.terms EXCEPT !.startDate = before.terms.startDate] = before.terms
     /\ SameDay(shown.instant, before.instant))
        => ret = before.ret

C13_Witness ==
    /\ TwoCalls
    /\ SameStartMonth
    /\ [shown.terms EXCEPT !.startDate = before.terms.startDate] = before.terms
    /\ shown.terms.startDate # before.terms.startDate
    /\ SameDay(shown.instant, before.instant)
    /\ steps >= 1
    /\ ret = before.ret

\* two calls on the same day whose terms are equal but for the name of the
\* bank return the same balance
C15_BankNameIgnored ==
    (/\ TwoCalls
     /\ [shown.terms EXCEPT !.bankName = before.terms.bankName] = before.terms
     /\ SameDay(shown.instant, before.instant))
        => ret = before.ret

\* C15: an invocation leaves the terms it was given unchanged: from its call
\* to its return loanAmount, startDate, interestRate, principalRate, bankName
\* and paymentTiming keep their values; and bankName has no influence on the
\* result.
C15_TermsUnchanged ==
    /\ []C15_BankNameIgnored
    /\ [][(pc = "loop" \/ pc' = "loop") => mortgage' = mortgage]_vars

C15_Witness ==
    /\ TwoCalls
    /\ [shown.terms EXCEPT !.bankName = before.terms.bankName] = before.terms
    /\ shown.terms.bankName # before.terms.bankName
    /\ SameDay(shown.instant, before.instant)
    /\ steps >= 1
    /\ mortgage = shown.terms
    /\ ret = before.ret

\* C16: after any sequence of saves through the form a property has no
\* mortgage record or one complete record: a save with the option on makes
\* every field of the record the one of that save, a save with it off leaves
\* the mortgage absent, and no field of an older record survives a save.
C16_WholeRecord ==
    IF form # NoForm /\ form.hasMortgage = "on"
    THEN /\ financed
         /\ mortgage.loanAmount = NumberValue(form.loanAmount)
         /\ mortgage.startDate = form.mortgageStartDate
         /\ mortgage.interestRate = NumberValue(form.interestRate)
         /\ mortgage.principalRate = NumberValue(form.principalRate)
         /\ mortgage.bankName = form.bankName
         /\ mortgage.paymentTiming = form.paymentTiming
         /\ DOMAIN mortgage = DOMAIN NoMortgage
    ELSE ~financed /\ mortgage = NoMortgage

C16_Witness ==
    /\ pc = "idle"
    /\ form # NoForm
    /\ form.hasMortgage = "on"
    /\ financed
    /\ shown.has
    /\ shown.financed
    /\ shown.terms.loanAmount # mortgage.loanAmount
    /\ shown.terms.startDate # mortgage.startDate
    /\ shown.terms.bankName # mortgage.bankName
    /\ shown.terms.paymentTiming # mortgage.paymentTiming

\* C17: every record handleSubmit hands to the store has loanAmount > 0,
\* interestRate >= 0 and principalRate >= 0, so the engine is only invoked on
\* such terms.
C17_StoredTermsValid ==
    financed =>
        /\ NumLt(NumZero, mortgage.loanAmount)
        /\ NumLeq(NumZero, mortgage.interestRate)
        /\ NumLeq(NumZero, mortgage.principalRate)

(***************************************************************************)
(* Sessions: the request just answered, the time it was answered at and    *)
(* the history of the token it carried                                     *)
(***************************************************************************)
Answered(kind) == request.kind = kind

\* the token is in the session store and its expiry has not passed
Live(sessions, token) == token \in DOMAIN sessions /\ time <= sessions[token]

\* the answer to a request that requireAuth stopped, or let through
C18_Answer ==
    Answered("api") =>
        /\ request.handled =>
              /\ Live(activeSessions, request.token)
              /\ request.token \in DOMAIN issued
              /\ request.token \notin loggedOut
              /\ time <= issued[request.token] + SESSION_DURATION
              /\ request.status = 200
        /\ ~request.handled => request.status = 401

\* C18: a handler behind requireAuth runs only for a request whose token is,
\* at that moment, in the session store and unexpired; every other request
\* (no token, unknown, expired or logged-out token) gets 401 and the handler
\* does not run.
C18_HandlerBehindSession ==
    /\ []C18_Answer
    /\ [][(request'.kind = "api" /\ request' # request) =>
            (request'.handled <=> Live(activeSessions, request'.token))]_vars

C18_Witness ==
    /\ Answered("api")
    /\ request.handled
    /\ time > issued[request.token]
    /\ activeSessions[request.token] = issued[request.token] + SESSION_DURATION

\* C19 as stated: a token issued by a successful login is accepted at every
\* time up to 24 hours after it was issued and rejected at every later time,
\* and an expired token is gone from the store once checked.
C19_AcceptedFor24h ==
    (Answered("api") /\ request.token \in DOMAIN issued) =>
        /\ request.handled <=> time <= issued[request.token] + SESSION_DURATION
        /\ ~request.handled => request.token \notin DOMAIN activeSessions

\* C19: a token issued by a successful login and not logged out since is
\* accepted at every time up to 24 hours after it was issued; every issued
\* token is rejected at every later time, whether or not the cleanup has run
\* in between, and is gone from the store once it was checked.
C19_AcceptedFor24hUnlessLoggedOut ==
    (Answered("api") /\ request.token \in DOMAIN issued) =>
        /\ request.token \notin loggedOut =>
              (request.handled <=> time <= issued[request.token] + SESSION_DURATION)
        /\ time > issued[request.token] + SESSION_DURATION =>
              ~request.handled /\ request.token \notin DOMAIN activeSessions

C19_Witness ==
    /\ Answered("api")
    /\ request.token \in DOMAIN issued
    /\ request.token \notin loggedOut
    /\ time = issued[request.token] + SESSION_DURATION
    /\ request.handled

\* a token that was logged out is in no session, and requireAuth stops it
C20_LoggedOutRejected ==
    /\ \A t \in loggedOut : t \notin DOMAIN activeSessions
    /\ (Answered("api") /\ request.token \in loggedOut) =>
           ~request.handled /\ request.status = 401

\* C20: once the logout of a token was processed, requireAuth rejects the
\* token in every later request; and the logout of one token leaves every
\* other session as it was.
C20_LogoutIsFinalAndLocal ==
    /\ []C20_LoggedOutRejected
    /\ [][(request'.kind = "logout" /\ request' # request) =>
            \A t \in DOMAIN activeSessions \ {request'.token} :
                t \in DOMAIN activeSessions' /\ activeSessions'[t] = activeSessions[t]]_vars

C20_Witness ==
    /\ Answered("api")
    /\ request.token \in loggedOut
    /\ request.token \in DOMAIN issued
    /\ time <= issued[request.token] + SESSION_DURATION
    /\ request.status = 401
    /\ \E t \in DOMAIN activeSessions : t # request.token /\ Live(activeSessions, t)

(***************************************************************************)
(* The early exit of the loop                                              *)
(***************************************************************************)
\* the iteration at hand takes the branch with the break
BreakTaken ==
    /\ pc = "loop"
    /\ LoopTest(currentDate, stopDateMonth)
    /\ ~PaymentPosted(mortgage, currentDate, now)

\* C26: the early exit is never taken under START_OF_MONTH, and under
\* END_OF_MONTH only in the iteration for the month of asOf; the loop test
\* fails for the month after it, so a loop without the break would return
\* the same balance.
C26_BreakOnlyInLastMonth ==
    BreakTaken =>
        /\ mortgage.paymentTiming = "END_OF_MONTH"
        /\ CursorMonth = AsOfMonth
        /\ ~LoopTest(setMonth(currentDate, JPlus(getMonth(currentDate), 1)), stopDateMonth)

C26_Witness ==
    /\ BreakTaken
    /\ mortgage.paymentTiming = "END_OF_MONTH"
    /\ steps >= 1

\* the share loanAmount * principalRate / 100 / 12 of a payment
PrincipalFloor(m) == NumDiv(NumDiv(NumMul(m.loanAmount, m.principalRate), 100), 12)

\* at the start of an iteration the balance is above 0 and at most loanAmount
C27_BalanceInRange ==
    (pc = "loop" /\ ValidTerms(mortgage)) =>
        NumLt(NumZero, balance) /\ NumLeq(balance, mortgage.loanAmount)

\* C27: for valid terms, at the start of every loop iteration
\* 0 < balance <= loanAmount; the principal part of every applied step is
\* >= loanAmount * principalRate / 100 / 12 >= 0, the balance does not grow,
\* and the principal part of the step after it is no smaller.
C27_PrincipalPartGrows ==
    /\ []C27_BalanceInRange
    /\ [][(pc = "loop" /\ ValidTerms(mortgage) /\ steps' = steps + 1) =>
            /\ NumLeq(NumZero, PrincipalFloor(mortgage))
            /\ NumLeq(PrincipalFloor(mortgage), NumSub(balance, balance'))
            /\ NumLeq(balance', balance)
            /\ NumLeq(NumSub(balance, balance'), principalPart(mortgage, balance'))]_vars

C27_Witness ==
    /\ pc = "loop"
    /\ ValidTerms(mortgage)
    /\ steps >= 2
    /\ NumLt(balance, mortgage.loanAmount)
    /\ NumLt(PrincipalFloor(mortgage), principalPart(mortgage, balance))

(***************************************************************************)
(* The two payment timings on the same terms and the same as-of date       *)
(***************************************************************************)
AtStartOfMonth == calculateRemainingBalance([mortgage EXCEPT !.paymentTiming = "START_OF_MONTH"], now)
AtEndOfMonth == calculateRemainingBalance([mortgage EXCEPT !.paymentTiming = "END_OF_MONTH"], now)

\* a call on valid terms has returned for an as-of date in or after the
\* month of the start date
TimingsComparable == Returned /\ ValidTerms(mortgage) /\ StartMonth(mortgage) <= AsOfMonth

LastDayOfMonth == now.d = DaysInMonth(now.y, now.m)

BearerOf(req) ==
    IF Len(req.authorization) = 2 /\ req.authorization[1] = "Bearer "
    THEN req.authorization[2]
    ELSE ""

\* C24: a request is accepted when the Authorization header or the
\* sessionToken cookie carries a valid, unexpired session token, whatever the
\* other one holds.
C24_EitherCarrierSuffices ==
    ( /\ Answered("api")
      /\ \/ Live(activeSessions, BearerOf(request.sent))
         \/ Live(activeSessions, request.sent.cookie) )
        => request.handled /\ request.status = 200

\* C25: a login with a wrong password, or on a server with no password
\* configured, fails and leaves the session store as it was: no token is
\* created and no session is added, removed or extended.
C25_FailedLoginChangesNothing ==
    [][( /\ request'.kind = "login"
         /\ request' # request
         /\ request'.sent # AdminPassword \/ env = "none" )
        => /\ ~request'.handled
           /\ request'.status \in {400, 401}
           /\ request'.token = ""
           /\ activeSessions' = activeSessions
           /\ issued' = issued]_vars

\* a wrong password is turned down while a session is live
C25_Witness ==
    /\ Answered("login")
    /\ request.sent = "guess"
    /\ request.status = 401
    /\ \E t \in DOMAIN activeSessions : Live(activeSessions, t)

(***************************************************************************)
(* retryWithBackoff and the temporary file of an upload                    *)
(***************************************************************************)
\* C21: retryWithBackoff calls fn at most 3 times; every call but the last
\* one failed, so it retries only after a failure and makes no call after a
\* success; what it returns is the result of the successful call; and when
\* the third call fails, the error of that call is thrown and nothing is
\* returned.
C21_AtMostThreeAttempts ==
    /\ Len(tries) <= 3
    /\ \A i \in 1..(Len(tries) - 1) : tries[i] = "error"
    /\ aiResponse # "" =>
          /\ tries # << >>
          /\ tries[Len(tries)] = aiResponse
          /\ aiResponse # "error"
          /\ error.kind # "ai"
    /\ error.kind = "ai" =>
          /\ Len(tries) = 3
          /\ tries[3] = "error"
          /\ error.attempt = 3
          /\ aiResponse = ""
    /\ (tries # << >> /\ tries[Len(tries)] = "error" /\ stage \notin {"ai", "backoff"}) =>
          error.kind = "ai"

\* the third call failed and the request was answered with the error
C21_Witness ==
    /\ Len(tries) = 3
    /\ error = [kind |-> "ai", attempt |-> 3]
    /\ stage = "responded"
    /\ status = 500

\* C22: for every request that carries a file, the temporary upload file is
\* deleted by the time the response is sent, in both versions of the handler.
C22_TempFileDeleted ==
    (stage = "responded" /\ status # 400) => ~tempFile

\* C23: whenever an operation of the api client, uploadDocument included,
\* receives a 401 response, authToken and authExpiry are removed from
\* localStorage and the browser is sent to the login route.
C23_UnauthorizedSignsOut ==
    received.status = 401 =>
        /\ localStorage = [authToken |-> "", authExpiry |-> ""]
        /\ location = "/#/login"

\* the run is creating or uploading its temp file
BackupActive(r) == runs[r].at \in {"creating", "uploading"}

\* C30: two overlapping runs of performBackup never work on the same temp
\* file: the temp files of two runs in progress differ, and the temp file of
\* a run in progress has not been deleted under it.
C30_NoSharedTempFile ==
    /\ \A r1 \in BackupRuns, r2 \in BackupRuns :
          (r1 # r2 /\ BackupActive(r1) /\ BackupActive(r2)) => runs[r1].path # runs[r2].path
    /\ \A r \in BackupRuns : BackupActive(r) => runs[r].path \in files

(***************************************************************************)
(* C27 on doubles: for valid terms, at the start of every loop iteration   *)
(* 0 < balance <= loanAmount, and the principal part of every applied step *)
(* is >= loanAmount * principalRate / 100 / 12 >= 0 and no greater than    *)
(* the principal part of the step after it, the balance not growing.  The  *)
(* bound is compared exactly: part >= L * p / 1200 iff 1200 * part >= L * p.*)
(***************************************************************************)
C27_PrincipalPartGrowsOnDoubles ==
    /\ []((pc = "loop" /\ ValidTerms64(mortgage)) =>
            ~BinLeq(balance, BinZero) /\ BinLeq(balance, mortgage.loanAmount))
    /\ [][(pc = "loop" /\ ValidTerms64(mortgage) /\ steps' = steps + 1) =>
            LET part == principalPart64(mortgage, balance)
                floor1200 == BinMul(mortgage.loanAmount, mortgage.principalRate)
            IN  /\ BinLeq(BinZero, floor1200)
                /\ BinLeq(floor1200, BinMul(BinFromInt(1200), part))
                /\ BinLeq(balance', balance)
                /\ BinLeq(part, principalPart64(mortgage, balance'))]_vars

(***************************************************************************)
(* C29 in exact arithmetic: with principalRate = 0 every step's principal  *)
(* part is 0 and every call returns exactly loanAmount.                    *)
(***************************************************************************)
C29_ExactInterestOnly ==
    /\ []((pc = "returned" /\ ValidTerms(mortgage) /\ mortgage.principalRate = NumZero) =>
            ret = mortgage.loanAmount)
    /\ [][(pc = "loop" /\ ValidTerms(mortgage) /\ mortgage.principalRate = NumZero
            /\ steps' = steps + 1) =>
            principalPart(mortgage, balance) = NumZero]_vars

(***************************************************************************)
(* C29 on doubles: with principalRate = 0 and any interestRate >= 0 every  *)
(* step's principal part is 0 and every call returns exactly loanAmount.   *)
(***************************************************************************)
C29_InterestOnlyKeepsLoan ==
    /\ []((pc = "returned" /\ ValidTerms64(mortgage) /\ mortgage.principalRate = BinZero) =>
            ret = mortgage.loanAmount)
    /\ [][(pc = "loop" /\ ValidTerms64(mortgage) /\ mortgage.principalRate = BinZero
            /\ steps' = steps + 1) =>
            principalPart64(mortgage, balance) = BinZero]_vars

(***************************************************************************)
(* C2 on doubles: for fixed valid terms the balance returned for a later   *)
(* as-of date is never greater than the one returned for an earlier date.  *)
(***************************************************************************)
C2_MonotonicOnDoubles ==
    (Returned /\ prev.has /\ ValidTerms64(mortgage) /\ DateLeq(prev.now, now))
        => BinLeq(ret, prev.ret)

====
